---------------------------- MODULE Spec2Model ----------------------------
(***************************************************************************)
(* A model of the Eclaim health-check scripts:                             *)
(*   fmd : src/find_my_doctor.py            (single flow, lenient check)    *)
(*   hk  : src/hk_eclaims.py                (three flows, one email)        *)
(*   pw  : src/send_test_email_with_screenshot_playwright.py (exact check)  *)
(*   sel : src/send_test_email_with_screenshot.py  (Selenium, exact check)  *)
(* A run is the pytest session of one script: the config fixture, the       *)
(* browser fixture, the test body (flow, failure handler, report email)     *)
(* and the fixture teardown.  The browser, the file system and the mail     *)
(* relay are the environment: every call into them either returns or        *)
(* raises, chosen nondeterministically.                                     *)
(***************************************************************************)
EXTENDS Integers, Sequences, FiniteSets, TLC

VARIABLES
    cfg,      \* environment-driven configuration of the run (never changes)
    pc,       \* position of the run
    flowIdx,  \* index of the flow being run (1 in the single-flow scripts)
    fl,       \* locals of run_claimsimple_flow*: observed text, native_dob_ok
    acts,     \* history: page interactions of the current flow, in order
    dob,      \* history: tiers of the DOB ladder of the current flow
    shot,     \* frame of the current screenshot call, and capture history
    files,    \* which screenshot files exist, per flow index
    exc,      \* the exception in flight or caught (NoExc when none)
    tst,      \* locals of the test function
    mail,     \* history of the report step
    res,      \* browser resources and their teardown
    out,      \* how the test function and the teardown ended
    txt       \* text-comparison harness: inputs and results

vars == <<cfg, pc, flowIdx, fl, acts, dob, shot, files, exc, tst, mail, res, out, txt>>

-----------------------------------------------------------------------------
(* Bounds of the model *)

\* longest text drawn for the text-comparison harness
MaxLen == 3

-----------------------------------------------------------------------------
(* Texts are sequences of characters.  "sz" stands for the sharp s, whose   *)
(* casefold is the two characters "ss"; "S" is the capital of "s"; " " is   *)
(* whitespace.                                                              *)

Chars == {"s", "S", "sz", " "}

RECURSIVE TextsOfLen(_)
TextsOfLen(n) ==
    IF n = 0 THEN {<<>>}
    ELSE {Append(t, c) : t \in TextsOfLen(n - 1), c \in Chars}

Texts == UNION {TextsOfLen(n) : n \in 0..MaxLen}

IsSpace(c) == c = " "

\* str.strip(): drop leading and trailing whitespace
RECURSIVE LStrip(_)
LStrip(s) ==
    IF s = <<>> THEN <<>>
    ELSE IF IsSpace(Head(s)) THEN LStrip(Tail(s))
    ELSE s

RECURSIVE RStrip(_)
RStrip(s) ==
    IF s = <<>> THEN <<>>
    ELSE IF IsSpace(s[Len(s)]) THEN RStrip(SubSeq(s, 1, Len(s) - 1))
    ELSE s

Strip(s) == RStrip(LStrip(s))

\* str.casefold(), character by character
FoldChar(c) ==
    IF c = "S" THEN <<"s">>
    ELSE IF c = "sz" THEN <<"s", "s">>
    ELSE <<c>>

RECURSIVE Casefold(_)
Casefold(s) ==
    IF s = <<>> THEN <<>>
    ELSE FoldChar(Head(s)) \o Casefold(Tail(s))

\* Python's  x in y  on strings
StrIn(x, y) ==
    \E i \in 0..(Len(y) - Len(x)) : SubSeq(y, i + 1, i + Len(x)) = x

(* Exceptions: the class, the step that raised it, the number of the       *)
(* capture attempt for a screenshot error, and the texts of its message:    *)
(* expected and actual for an assertion failure, the variable looked up and *)
(* the list of missing variables for a configuration error.                 *)
NoExc == [kind |-> "none", at |-> "none", n |-> 0, msg |-> <<>>]

Exc(kind, at, n) == [kind |-> kind, at |-> at, n |-> n, msg |-> <<>>]

AssertionFailure(expected, actual) ==
    [kind |-> "AssertionError", at |-> "assert", n |-> 0, msg |-> <<expected, actual>>]

\* a mutant of LenientAssert: containment tested in one direction only
LenientAssertOneWay(expected, observed) ==
    LET expected_norm == Casefold(Strip(expected))
        actual_norm   == Casefold(Strip(observed))
    IN  IF StrIn(expected_norm, actual_norm)
        THEN NoExc
        ELSE AssertionFailure(expected, observed)

\* the assert of find_my_doctor / hk_eclaims
LenientAssert(expected, observed) ==
    LET expected_norm == Casefold(Strip(expected))
        actual_norm   == Casefold(Strip(observed))
    IN  IF StrIn(expected_norm, actual_norm) \/ StrIn(actual_norm, expected_norm)
        THEN NoExc
        ELSE AssertionFailure(expected, observed)

\* a mutant of ExactAssert: texts of the same length are taken as equal
ExactAssertSameLength(expected, observed) ==
    IF Len(observed) = Len(expected)
    THEN NoExc
    ELSE AssertionFailure(expected, observed)

\* the assert of send_test_email_with_screenshot*
ExactAssert(expected, observed) ==
    IF observed = expected
    THEN NoExc
    ELSE AssertionFailure(expected, observed)

Lenient(v) == v \in {"fmd", "hk"}

\* "if expected_error_text: assert ..." of the four scripts
TextCheck(v, expected, observed) ==
    IF expected = <<>> THEN NoExc
    ELSE IF Lenient(v) THEN LenientAssert(expected, observed)
    ELSE ExactAssert(expected, observed)

-----------------------------------------------------------------------------
(* The text-comparison harness: inputs drawn from Texts, the check applied. *)

Idle == "idle"

restIdle ==
    /\ cfg = Idle /\ pc = Idle /\ flowIdx = 0 /\ fl = Idle /\ acts = <<>>
    /\ dob = Idle /\ shot = Idle /\ files = Idle /\ exc = NoExc /\ tst = Idle
    /\ mail = Idle /\ res = Idle /\ out = Idle

InitText ==
    /\ restIdle
    /\ \E e \in Texts, a \in Texts :
          txt = [expected |-> e, observed |-> a, variant |-> "none", result |-> NoExc]

\* run the check of one script on the drawn pair
ApplyCheck ==
    /\ txt.variant = "none"
    /\ \E v \in {"fmd", "hk", "pw", "sel"} :
          txt' = [txt EXCEPT !.variant = v,
                             !.result = TextCheck(v, txt.expected, txt.observed)]
    /\ UNCHANGED <<cfg, pc, flowIdx, fl, acts, dob, shot, files, exc, tst, mail, res, out>>

NextText == ApplyCheck

SpecText == InitText /\ [][NextText]_vars

-----------------------------------------------------------------------------
(* Configuration and environment of a run *)

\* REQUIRED_VARS, in the order the scripts look them up
REQUIRED_VARS == <<"SMTP_USERNAME", "SMTP_PASSWORD", "TO_EMAIL">>

RequiredSet == {REQUIRED_VARS[i] : i \in 1..Len(REQUIRED_VARS)}

\* number of flows of the batch script
NumFlows == 3

FlowTitles == <<"Outpatients Claims", "My Medical Card", "Find My Doctor">>

\* EXPECTED_ERROR_TEXT: unset to "" or a text
ExpectedTexts == {<<>>, <<"S", "s">>}

\* inner_text() of the error element when it shows: the expected text with
\* surrounding whitespace, a longer text containing it, another text
PageTexts == {<<"S", "s", " ">>, <<"s", "s", "S">>, <<"S", " ", "s">>}

Eager(v) == v \in {"pw", "sel"}

Batch(v) == v = "hk"

Selenium(v) == v = "sel"

\* has the stability gate and stable_screenshot
Stable(v) == v \in {"fmd", "hk"}

Configs(variants) ==
    [variant : variants, expected : ExpectedTexts, always : BOOLEAN,
     onfail : BOOLEAN, ssl : BOOLEAN, missing : SUBSET RequiredSet]

\* [v for v in REQUIRED_VARS if not os.getenv(v)]
MissingList(missing) ==
    SelectSeq(REQUIRED_VARS, LAMBDA v : v \in missing)

\* a mutant of GetEnv: the error lists only the variable looked up
GetEnvFirstOnly(name, missing) ==
    IF name \in missing
    THEN [kind |-> "RuntimeError", at |-> "get_env", n |-> 0,
          msg |-> <<<<name>>, <<name>>>>]
    ELSE NoExc

\* get_env(name): the value, or a RuntimeError naming the variable and
\* listing every variable that is missing
GetEnv(name, missing) ==
    IF name \in missing
    THEN [kind |-> "RuntimeError", at |-> "get_env", n |-> 0,
          msg |-> <<<<name>>, MissingList(missing)>>]
    ELSE NoExc

\* the three lookups in program order: the first that raises ends them
RECURSIVE LookupFrom(_, _)
LookupFrom(i, missing) ==
    IF i > Len(REQUIRED_VARS) THEN NoExc
    ELSE IF GetEnv(REQUIRED_VARS[i], missing) # NoExc
         THEN GetEnv(REQUIRED_VARS[i], missing)
         ELSE LookupFrom(i + 1, missing)

LookupRequired(missing) == LookupFrom(1, missing)

\* str(e): the message of an assertion failure carries both texts, a
\* configuration error its texts; a browser, driver or mail error is
\* abstracted to its class
Str(e) ==
    IF e.kind = "AssertionError"
    THEN <<<<"Expected">>, e.msg[1], <<"Actual">>, e.msg[2]>>
    ELSE <<<<e.kind>>>> \o e.msg

\* None
NoReason == <<>>

-----------------------------------------------------------------------------
(* Initial state of a run: nothing launched, no screenshot file, no mail *)

NoShot ==
    [active |-> FALSE, path |-> "none", retries |-> 0, i |-> 0,
     phase |-> "none", log |-> <<>>, left |-> NoExc]

FlowLocals == [observed |-> <<>>, native_dob_ok |-> TRUE]

NoDob == [tiers |-> <<>>, raised |-> {}, commitFailed |-> {}, setOk |-> FALSE]

InitRun(variants) ==
    /\ cfg \in Configs(variants)
    /\ pc = "config"
    /\ flowIdx = 0
    /\ fl = FlowLocals
    /\ acts = <<>>
    /\ dob = NoDob
    /\ shot = NoShot
    /\ files = [i \in 1..NumFlows |-> FALSE]
    /\ exc = NoExc
    /\ tst = [observed_error |-> <<>>, test_failed |-> FALSE,
              failure_reason |-> NoReason, results |-> <<>>, any_fail |-> FALSE,
              captures |-> <<>>, started |-> <<>>]
    /\ mail = [entered |-> 0, sends |-> <<>>, smtp |-> <<>>, printed |-> FALSE]
    /\ res = [browser |-> "none", context |-> "none", page |-> FALSE,
              closes |-> <<>>, stopped |-> FALSE]
    /\ out = [setup |-> NoExc, test |-> NoExc, ended |-> FALSE, teardown |-> NoExc]
    /\ txt = Idle

-----------------------------------------------------------------------------
(* Fixtures *)

\* a mutant of ConfigFixture: every script validates the SMTP variables in
\* the fixture
ConfigFixtureAllEager ==
    /\ pc = "config"
    /\ LET e == LookupRequired(cfg.missing)
       IN  IF e # NoExc
           THEN /\ out' = [out EXCEPT !.setup = e]
                /\ pc' = "end"
           ELSE /\ pc' = "launch"
                /\ out' = out
    /\ UNCHANGED <<cfg, flowIdx, fl, acts, dob, shot, files, exc, tst, mail, res, txt>>

\* config(): the eager scripts call get_env for the three required values
ConfigFixture ==
    /\ pc = "config"
    /\ LET e == IF Eager(cfg.variant) THEN LookupRequired(cfg.missing) ELSE NoExc
       IN  IF e # NoExc
           THEN /\ out' = [out EXCEPT !.setup = e]
                /\ pc' = "end"
           ELSE /\ pc' = "launch"
                /\ out' = out
    /\ UNCHANGED <<cfg, flowIdx, fl, acts, dob, shot, files, exc, tst, mail, res, txt>>

\* page(): p.chromium.launch(...)   driver(): make_chrome_driver(...)
Launch ==
    /\ pc = "launch"
    /\ \E ok \in BOOLEAN :
          IF ok
          THEN /\ res' = [res EXCEPT !.browser = "open"]
               /\ pc' = IF Selenium(cfg.variant) THEN "test" ELSE "new_context"
               /\ out' = out
          ELSE /\ res' = [res EXCEPT !.stopped = ~Selenium(cfg.variant)]
               /\ out' = [out EXCEPT !.setup = Exc("Error", "launch", 0)]
               /\ pc' = "end"
    /\ UNCHANGED <<cfg, flowIdx, fl, acts, dob, shot, files, exc, tst, mail, txt>>

\* page(): browser.new_context(...); set_default_timeout is in a try/except
\* of its own and changes nothing here.  A raise leaves the with-block:
\* sync_playwright stops, context.close() and browser.close() are not reached.
NewContext ==
    /\ pc = "new_context"
    /\ \E ok \in BOOLEAN :
          IF ok
          THEN /\ res' = [res EXCEPT !.context = "open"]
               /\ pc' = "new_page"
               /\ out' = out
          ELSE /\ res' = [res EXCEPT !.stopped = TRUE]
               /\ out' = [out EXCEPT !.setup = Exc("Error", "new_context", 0)]
               /\ pc' = "end"
    /\ UNCHANGED <<cfg, flowIdx, fl, acts, dob, shot, files, exc, tst, mail, txt>>

\* page(): pg = context.new_page(); yield pg
NewPage ==
    /\ pc = "new_page"
    /\ \E ok \in BOOLEAN :
          IF ok
          THEN /\ res' = [res EXCEPT !.page = TRUE]
               /\ pc' = "test"
               /\ out' = out
          ELSE /\ res' = [res EXCEPT !.stopped = TRUE]
               /\ out' = [out EXCEPT !.setup = Exc("Error", "new_page", 0)]
               /\ pc' = "end"
    /\ UNCHANGED <<cfg, flowIdx, fl, acts, dob, shot, files, exc, tst, mail, txt>>

\* teardown of page(): try: context.close() finally: browser.close(), then
\* the with-block of sync_playwright ends; an exception of browser.close()
\* replaces the one of context.close().
\* teardown of driver(): try: drv.quit() except Exception: pass
Teardown ==
    /\ pc = "teardown"
    /\ \E c \in BOOLEAN, b \in BOOLEAN :
          IF Selenium(cfg.variant)
          THEN /\ res' = [res EXCEPT !.closes = Append(@, "quit"),
                                     !.browser = IF b THEN "closed" ELSE @]
               /\ out' = out
          ELSE /\ res' = [res EXCEPT
                      !.closes = @ \o <<"context.close", "browser.close">>,
                      !.context = IF c THEN "closed" ELSE @,
                      !.browser = IF b THEN "closed" ELSE @,
                      !.stopped = TRUE]
               /\ out' = [out EXCEPT !.teardown =
                             IF ~b THEN Exc("Error", "browser.close", 0)
                             ELSE IF ~c THEN Exc("Error", "context.close", 0)
                             ELSE NoExc]
    /\ pc' = "end"
    /\ UNCHANGED <<cfg, flowIdx, fl, acts, dob, shot, files, exc, tst, mail, txt>>

-----------------------------------------------------------------------------
(* The flow: run_claimsimple_flow_playwright / run_claimsimple_flow.        *)
(* acts logs <<"wait", element, ok>> for a wait and <<"do", element, ok>>   *)
(* for an interaction that was started.                                     *)

\* an exception leaves the flow: the caller's except clause is next
RaiseFlow(e) ==
    /\ exc' = e
    /\ pc' = "except"

\* a mutant of Goto: the loop body does not reset observed_error
GotoKeepsObserved ==
    /\ pc = "test"
    /\ flowIdx' = flowIdx + 1
    /\ fl' = FlowLocals
    /\ dob' = NoDob
    /\ tst' = [tst EXCEPT !.failure_reason = NoReason,
                          !.captures = <<>>,
                          !.started = Append(@, FlowTitles[flowIdx + 1])]
    /\ \E ok \in BOOLEAN :
          /\ acts' = <<<<"do", "goto", ok>>>>
          /\ IF ok THEN pc' = "claim" /\ exc' = NoExc
                   ELSE RaiseFlow(Exc("Error", "goto", 0))
    /\ UNCHANGED <<cfg, shot, files, mail, res, out, txt>>

\* page.goto(cs_hk_url) / driver.get(cs_hk_url), first statement of a flow;
\* in the batch script this is also the top of the loop body, which resets
\* observed_error, status and failure_reason
Goto ==
    /\ pc = "test"
    /\ flowIdx' = flowIdx + 1
    /\ fl' = FlowLocals
    /\ dob' = NoDob
    /\ tst' = [tst EXCEPT !.observed_error = <<>>, !.failure_reason = NoReason,
                          !.captures = <<>>,
                          !.started = Append(@, FlowTitles[flowIdx + 1])]
    /\ \E ok \in BOOLEAN :
          /\ acts' = <<<<"do", "goto", ok>>>>
          /\ IF ok THEN pc' = "claim" /\ exc' = NoExc
                   ELSE RaiseFlow(Exc("Error", "goto", 0))
    /\ UNCHANGED <<cfg, shot, files, mail, res, out, txt>>

\* the steps that wait for an element and then act on it
WaitActSteps(v) ==
    IF Selenium(v) THEN {"claim", "checkbox", "continue", "toggle", "id", "dob"}
    ELSE {"claim", "continue", "toggle", "id"}

\* a mutant of AfterStep: the ID toggle is left out
AfterStepNoToggle(v, s) ==
    CASE s = "claim"    -> "tnc"
      [] s = "checkbox" -> "continue"
      [] s = "continue" -> "id"
      [] s = "toggle"   -> "id"
      [] s = "id"       -> IF Selenium(v) THEN "dob" ELSE "dob_native"
      [] s = "dob"      -> "error_wait"

AfterStep(v, s) ==
    CASE s = "claim"    -> "tnc"
      [] s = "checkbox" -> "continue"
      [] s = "continue" -> "toggle"
      [] s = "toggle"   -> "id"
      [] s = "id"       -> IF Selenium(v) THEN "dob" ELSE "dob_native"
      [] s = "dob"      -> "error_wait"

\* wait_for_selector(X, visible) then scroll/click/fill on X; for the ID and
\* the Selenium DOB field the typed Enter is part of the interaction
WaitAct(s) ==
    /\ pc = s
    /\ s \in WaitActSteps(cfg.variant)
    /\ \E r \in {"ok", "wait", "act"} :
          CASE r = "wait" ->
                 /\ acts' = Append(acts, <<"wait", s, FALSE>>)
                 /\ RaiseFlow(Exc("TimeoutError", s, 0))
            [] r = "act" ->
                 /\ acts' = acts \o <<<<"wait", s, TRUE>>, <<"do", s, FALSE>>>>
                 /\ RaiseFlow(Exc("Error", s, 0))
            [] r = "ok" ->
                 /\ acts' = acts \o <<<<"wait", s, TRUE>>, <<"do", s, TRUE>>>>
                 /\ pc' = AfterStep(cfg.variant, s)
                 /\ exc' = exc
    /\ UNCHANGED <<cfg, flowIdx, fl, dob, shot, files, tst, mail, res, out, txt>>

\* a mutant of TncPlaywright: the T&C URL is loaded before any wait
TncPlaywrightNavFirst ==
    /\ pc = "tnc"
    /\ ~Selenium(cfg.variant)
    /\ \E nav \in BOOLEAN, second \in BOOLEAN :
          IF ~nav
          THEN /\ acts' = Append(acts, <<"do", "nav_tnc", FALSE>>)
               /\ RaiseFlow(Exc("Error", "nav_tnc", 0))
          ELSE /\ acts' = acts \o <<<<"do", "nav_tnc", TRUE>>,
                                    <<"wait", "checkbox", second>>>>
               /\ IF second THEN pc' = "checkbox" /\ exc' = exc
                            ELSE RaiseFlow(Exc("TimeoutError", "checkbox", 0))
    /\ UNCHANGED <<cfg, flowIdx, fl, dob, shot, files, tst, mail, res, out, txt>>

\* a mutant of TncPlaywright: the fallback navigation is repeated once more
\* after a second failed wait
TncPlaywrightRetryTwice ==
    /\ pc = "tnc"
    /\ ~Selenium(cfg.variant)
    /\ \E first \in BOOLEAN, second \in BOOLEAN, third \in BOOLEAN :
          IF first
          THEN /\ acts' = Append(acts, <<"wait", "checkbox", TRUE>>)
               /\ pc' = "checkbox" /\ exc' = exc
          ELSE IF second
          THEN /\ acts' = acts \o <<<<"wait", "checkbox", FALSE>>,
                                    <<"do", "nav_tnc", TRUE>>,
                                    <<"wait", "checkbox", TRUE>>>>
               /\ pc' = "checkbox" /\ exc' = exc
          ELSE /\ acts' = acts \o <<<<"wait", "checkbox", FALSE>>,
                                    <<"do", "nav_tnc", TRUE>>,
                                    <<"wait", "checkbox", FALSE>>,
                                    <<"do", "nav_tnc", TRUE>>,
                                    <<"wait", "checkbox", third>>>>
               /\ IF third THEN pc' = "checkbox" /\ exc' = exc
                           ELSE RaiseFlow(Exc("TimeoutError", "checkbox", 0))
    /\ UNCHANGED <<cfg, flowIdx, fl, dob, shot, files, tst, mail, res, out, txt>>

\* Playwright scripts: wait for the terms checkbox; on any exception set
\* location.href to the T&C URL and wait once more
TncPlaywright ==
    /\ pc = "tnc"
    /\ ~Selenium(cfg.variant)
    /\ \E first \in BOOLEAN, nav \in BOOLEAN, second \in BOOLEAN :
          IF first
          THEN /\ acts' = Append(acts, <<"wait", "checkbox", TRUE>>)
               /\ pc' = "checkbox" /\ exc' = exc
          ELSE IF ~nav
          THEN /\ acts' = acts \o <<<<"wait", "checkbox", FALSE>>,
                                    <<"do", "nav_tnc", FALSE>>>>
               /\ RaiseFlow(Exc("Error", "nav_tnc", 0))
          ELSE /\ acts' = acts \o <<<<"wait", "checkbox", FALSE>>,
                                    <<"do", "nav_tnc", TRUE>>,
                                    <<"wait", "checkbox", second>>>>
               /\ IF second THEN pc' = "checkbox" /\ exc' = exc
                            ELSE RaiseFlow(Exc("TimeoutError", "checkbox", 0))
    /\ UNCHANGED <<cfg, flowIdx, fl, dob, shot, files, tst, mail, res, out, txt>>

\* Selenium script: driver.get(tnc_emc_url), unconditionally
TncSelenium ==
    /\ pc = "tnc"
    /\ Selenium(cfg.variant)
    /\ \E ok \in BOOLEAN :
          /\ acts' = Append(acts, <<"do", "nav_tnc", ok>>)
          /\ IF ok THEN pc' = "checkbox" /\ exc' = exc
                   ELSE RaiseFlow(Exc("Error", "nav_tnc", 0))
    /\ UNCHANGED <<cfg, flowIdx, fl, dob, shot, files, tst, mail, res, out, txt>>

\* Playwright scripts: scroll to the checkbox and check(force=True)
CheckTerms ==
    /\ pc = "checkbox"
    /\ ~Selenium(cfg.variant)
    /\ \E ok \in BOOLEAN :
          /\ acts' = Append(acts, <<"do", "checkbox", ok>>)
          /\ IF ok THEN pc' = "continue" /\ exc' = exc
                   ELSE RaiseFlow(Exc("Error", "checkbox", 0))
    /\ UNCHANGED <<cfg, flowIdx, fl, dob, shot, files, tst, mail, res, out, txt>>

\* commit_and_press_enter(locator): both halves sit in try/except Exception
\* of their own, so no exception of theirs leaves the helper
CommitAndPressEnter(dispatchOk, pressOk) == NoExc

\* the helper's work failed inside (swallowed)
CommitFailed(dispatchOk, pressOk) == ~dispatchOk \/ ~pressOk

\* a mutant of DobNative: an exception of the native typing leaves the flow
DobNativeSurfaced ==
    /\ pc = "dob_native"
    /\ \E w \in BOOLEAN, failing \in {"none", "click", "fill", "type"},
          d \in BOOLEAN, p \in BOOLEAN :
          IF ~w
          THEN /\ acts' = Append(acts, <<"wait", "dob", FALSE>>)
               /\ RaiseFlow(Exc("TimeoutError", "dob", 0))
               /\ UNCHANGED <<fl, dob>>
          ELSE /\ acts' = acts \o <<<<"wait", "dob", TRUE>>,
                                    <<"do", "dob", failing = "none">>>>
               /\ fl' = fl
               /\ dob' = [dob EXCEPT
                     !.tiers = Append(@, 1),
                     !.raised = IF failing # "none" THEN @ \cup {1} ELSE @]
               /\ IF failing = "none"
                  THEN pc' = "error_wait" /\ exc' = exc
                  ELSE RaiseFlow(Exc("Error", failing, 0))
    /\ UNCHANGED <<cfg, flowIdx, shot, files, tst, mail, res, out, txt>>

\* tier 1 of the DOB entry: wait for input[name='dob'] (attached), then
\* try: click, fill(""), type, commit_and_press_enter
\* except Exception: native_dob_ok = False
DobNative ==
    /\ pc = "dob_native"
    /\ \E w \in BOOLEAN, failing \in {"none", "click", "fill", "type"},
          d \in BOOLEAN, p \in BOOLEAN :
          IF ~w
          THEN /\ acts' = Append(acts, <<"wait", "dob", FALSE>>)
               /\ RaiseFlow(Exc("TimeoutError", "dob", 0))
               /\ UNCHANGED <<fl, dob>>
          ELSE LET raised == IF failing # "none" THEN Exc("Error", failing, 0)
                             ELSE CommitAndPressEnter(d, p)
               IN  /\ acts' = acts \o <<<<"wait", "dob", TRUE>>,
                                        <<"do", "dob", raised = NoExc>>>>
                   /\ fl' = [fl EXCEPT !.native_dob_ok = (raised = NoExc)]
                   /\ dob' = [dob EXCEPT
                         !.tiers = Append(@, 1),
                         !.raised = IF raised # NoExc THEN @ \cup {1} ELSE @,
                         !.commitFailed =
                             IF failing = "none" /\ CommitFailed(d, p)
                             THEN @ \cup {1} ELSE @]
                   /\ pc' = IF raised = NoExc THEN "error_wait" ELSE "dob_js"
                   /\ exc' = exc
    /\ UNCHANGED <<cfg, flowIdx, shot, files, tst, mail, res, out, txt>>

\* if not native_dob_ok: tier 2, set_input_value_js (outside any try), then
\* try: focus (swallowed); commit_and_press_enter
\* except Exception: tier 3, Enter key events dispatched on document
DobJs ==
    /\ pc = "dob_js"
    /\ ~fl.native_dob_ok
    /\ \E set \in BOOLEAN, d \in BOOLEAN, p \in BOOLEAN, doc \in BOOLEAN :
          IF ~set
          THEN /\ acts' = Append(acts, <<"do", "dob_js", FALSE>>)
               /\ dob' = [dob EXCEPT !.tiers = Append(@, 2),
                                     !.raised = @ \cup {2}]
               /\ RaiseFlow(Exc("Error", "set_input_value_js", 0))
          ELSE LET recommit == CommitAndPressEnter(d, p)
                   tiers == IF recommit # NoExc THEN <<2, 3>> ELSE <<2>>
               IN  /\ acts' = acts \o
                         (IF recommit # NoExc
                          THEN <<<<"do", "dob_js", TRUE>>, <<"do", "doc_enter", doc>>>>
                          ELSE <<<<"do", "dob_js", TRUE>>>>)
                   /\ dob' = [dob EXCEPT
                         !.tiers = @ \o tiers,
                         !.setOk = TRUE,
                         !.raised = IF recommit # NoExc THEN @ \cup {2} ELSE @,
                         !.commitFailed =
                             IF CommitFailed(d, p) THEN @ \cup {2} ELSE @]
                   /\ IF recommit # NoExc /\ ~doc
                      THEN RaiseFlow(Exc("Error", "doc_enter", 0))
                      ELSE pc' = "error_wait" /\ exc' = exc
    /\ UNCHANGED <<cfg, flowIdx, fl, shot, files, tst, mail, res, out, txt>>

\* retries of stable_screenshot at the end of the flow
SuccessRetries == 3

\* retries of stable_screenshot in the caller's except clause
FailureRetries == 2

\* the screenshot call of a script on a path: stable_screenshot with its
\* retries, or (retries 0) the bare page.screenshot / driver.save_screenshot
RetriesOf(v, path) ==
    IF ~Stable(v) THEN 0
    ELSE IF path = "success" THEN SuccessRetries
    ELSE FailureRetries

OpenShot(v, path) ==
    [active |-> TRUE, path |-> path, retries |-> RetriesOf(v, path), i |-> 0,
     phase |-> IF RetriesOf(v, path) > 0 THEN "try" ELSE "final", log |-> <<>>,
     left |-> NoExc]

\* wait for the error element; only its text, stripped, is kept.  The
\* Playwright scripts catch PlaywrightTimeout alone, the Selenium script
\* catches every Exception.
ErrorWait ==
    /\ pc = "error_wait"
    /\ \E o \in {<<"timeout">>, <<"error">>} \cup {<<"text", t>> : t \in PageTexts} :
          CASE o[1] = "text" ->
                 /\ fl' = [fl EXCEPT !.observed = Strip(o[2])]
                 /\ acts' = Append(acts, <<"wait", "error", TRUE>>)
                 /\ pc' = "assert" /\ exc' = exc
            [] o[1] = "timeout" ->
                 /\ fl' = fl
                 /\ acts' = Append(acts, <<"wait", "error", FALSE>>)
                 /\ pc' = "assert" /\ exc' = exc
            [] o[1] = "error" ->
                 /\ fl' = fl
                 /\ acts' = Append(acts, <<"wait", "error", FALSE>>)
                 /\ IF Selenium(cfg.variant)
                    THEN pc' = "assert" /\ exc' = exc
                    ELSE RaiseFlow(Exc("Error", "error_wait", 0))
    /\ UNCHANGED <<cfg, flowIdx, dob, shot, files, tst, mail, res, out, txt>>

\* a mutant of AssertText: the stability gate runs whether or not an
\* expected text is configured
AssertTextGateAlways ==
    /\ pc = "assert"
    /\ LET e == TextCheck(cfg.variant, cfg.expected, fl.observed)
       IN  IF e # NoExc
           THEN /\ RaiseFlow(e)
                /\ acts' = Append(acts, <<"do", "assert", FALSE>>)
                /\ shot' = shot
           ELSE /\ exc' = exc
                /\ acts' = IF cfg.expected # <<>>
                           THEN Append(acts, <<"do", "assert", TRUE>>) ELSE acts
                /\ IF Stable(cfg.variant)
                   THEN pc' = "stabilise" /\ shot' = shot
                   ELSE pc' = "shot" /\ shot' = OpenShot(cfg.variant, "success")
    /\ UNCHANGED <<cfg, flowIdx, fl, dob, files, tst, mail, res, out, txt>>

\* if expected_error_text: assert ...; then the stability gate (fmd, hk) or
\* the screenshot call
AssertText ==
    /\ pc = "assert"
    /\ LET e == TextCheck(cfg.variant, cfg.expected, fl.observed)
       IN  IF e # NoExc
           THEN /\ RaiseFlow(e)
                /\ acts' = Append(acts, <<"do", "assert", FALSE>>)
                /\ shot' = shot
           ELSE /\ exc' = exc
                /\ acts' = IF cfg.expected # <<>>
                           THEN Append(acts, <<"do", "assert", TRUE>>) ELSE acts
                /\ IF Stable(cfg.variant) /\ cfg.expected # <<>>
                   THEN pc' = "stabilise" /\ shot' = shot
                   ELSE pc' = "shot" /\ shot' = OpenShot(cfg.variant, "success")
    /\ UNCHANGED <<cfg, flowIdx, fl, dob, files, tst, mail, res, out, txt>>

\* fmd, hk: re-commit both inputs, blur, Enter, wait for a verify response,
\* wait_until_painted, sleep: each in a try/except Exception: pass
Stabilise ==
    /\ pc = "stabilise"
    /\ \E painted \in BOOLEAN :
          acts' = Append(acts, <<"do", "paint", painted>>)
    /\ pc' = "shot"
    /\ shot' = OpenShot(cfg.variant, "success")
    /\ UNCHANGED <<cfg, flowIdx, fl, dob, files, exc, tst, mail, res, out, txt>>

-----------------------------------------------------------------------------
(* stable_screenshot(page, path, retries, delay_ms) *)

\* the call returns to its caller
ShotReturn ==
    pc' = IF shot.path = "success" THEN "flow_return" ELSE "after_except"

\* a mutant of ShotRaise: the exception of a failure-path capture is not
\* swallowed
ShotRaiseUnguarded(e) == RaiseFlow(e)

\* an exception leaves the call: it fails the flow on the success path and
\* is swallowed by the caller's try/except on the failure path
ShotRaise(e) ==
    IF shot.path = "success"
    THEN RaiseFlow(e)
    ELSE pc' = "after_except" /\ exc' = exc

Captured(ok) == Append(tst.captures, <<shot.path, ok>>)

\* a mutant of ShotTry: a capture that succeeded does not end the loop
ShotTryNoReturn ==
    /\ pc = "shot" /\ shot.active /\ shot.phase = "try"
    /\ \E ok \in BOOLEAN :
          /\ tst' = [tst EXCEPT !.captures = Captured(ok)]
          /\ files' = IF ok THEN [files EXCEPT ![flowIdx] = TRUE] ELSE files
          /\ shot' = [shot EXCEPT !.log = Append(@, IF ok THEN "ok" ELSE "fail"),
                                  !.phase = "delay"]
          /\ pc' = pc
    /\ UNCHANGED <<cfg, flowIdx, fl, acts, dob, exc, mail, res, out, txt>>

\* for _ in range(retries): try: page.screenshot(...); return
\*                          except Exception: pass
ShotTry ==
    /\ pc = "shot" /\ shot.active /\ shot.phase = "try"
    /\ \E ok \in BOOLEAN :
          /\ tst' = [tst EXCEPT !.captures = Captured(ok)]
          /\ IF ok
             THEN /\ files' = [files EXCEPT ![flowIdx] = TRUE]
                  /\ shot' = [shot EXCEPT !.log = Append(@, "ok"),
                                          !.active = FALSE, !.phase = "returned"]
                  /\ ShotReturn
             ELSE /\ files' = files
                  /\ shot' = [shot EXCEPT !.log = Append(@, "fail"),
                                          !.phase = "delay"]
                  /\ pc' = pc
    /\ UNCHANGED <<cfg, flowIdx, fl, acts, dob, exc, mail, res, out, txt>>

\* a mutant of ShotDelay: the loop makes one round more than retries
ShotDelayOneMore ==
    /\ pc = "shot" /\ shot.active /\ shot.phase = "delay"
    /\ \E ok \in BOOLEAN :
          IF ok
          THEN /\ shot' = [shot EXCEPT
                      !.i = @ + 1,
                      !.phase = IF shot.i + 1 <= shot.retries THEN "try" ELSE "final"]
               /\ pc' = pc /\ exc' = exc
          ELSE /\ shot' = [shot EXCEPT !.active = FALSE, !.phase = "raised",
                                       !.left = Exc("Error", "wait_for_timeout", 0)]
               /\ ShotRaise(Exc("Error", "wait_for_timeout", 0))
    /\ UNCHANGED <<cfg, flowIdx, fl, acts, dob, files, tst, mail, res, out, txt>>

\* page.wait_for_timeout(delay_ms), outside the try: its exception leaves
\* stable_screenshot
ShotDelay ==
    /\ pc = "shot" /\ shot.active /\ shot.phase = "delay"
    /\ \E ok \in BOOLEAN :
          IF ok
          THEN /\ shot' = [shot EXCEPT
                      !.i = @ + 1,
                      !.phase = IF shot.i + 1 < shot.retries THEN "try" ELSE "final"]
               /\ pc' = pc /\ exc' = exc
          ELSE /\ shot' = [shot EXCEPT !.active = FALSE, !.phase = "raised",
                                       !.left = Exc("Error", "wait_for_timeout", 0)]
               /\ ShotRaise(Exc("Error", "wait_for_timeout", 0))
    /\ UNCHANGED <<cfg, flowIdx, fl, acts, dob, files, tst, mail, res, out, txt>>

\* a mutant of ShotFinal: the final capture is guarded like the others
ShotFinalGuarded ==
    /\ pc = "shot" /\ shot.active /\ shot.phase = "final"
    /\ \E o \in {"ok", "fail", "false"} :
          /\ (o = "false") => Selenium(cfg.variant)
          /\ tst' = [tst EXCEPT !.captures = Captured(o = "ok")]
          /\ files' = IF o = "ok" THEN [files EXCEPT ![flowIdx] = TRUE] ELSE files
          /\ shot' = [shot EXCEPT !.log = Append(@, o),
                                  !.active = FALSE, !.phase = "returned"]
          /\ ShotReturn /\ exc' = exc
    /\ UNCHANGED <<cfg, flowIdx, fl, acts, dob, mail, res, out, txt>>

\* the final, unguarded page.screenshot(...); in the scripts without
\* stable_screenshot the only capture.  driver.save_screenshot returns
\* False, writing nothing, on an IOError.
ShotFinal ==
    /\ pc = "shot" /\ shot.active /\ shot.phase = "final"
    /\ \E o \in {"ok", "fail", "false"} :
          /\ (o = "false") => Selenium(cfg.variant)
          /\ tst' = [tst EXCEPT !.captures = Captured(o = "ok")]
          /\ files' = IF o = "ok" THEN [files EXCEPT ![flowIdx] = TRUE] ELSE files
          /\ IF o = "fail"
             THEN /\ shot' = [shot EXCEPT
                         !.log = Append(@, "fail"),
                         !.active = FALSE, !.phase = "raised",
                         !.left = Exc("Error", "screenshot", Len(shot.log) + 1)]
                  /\ ShotRaise(Exc("Error", "screenshot", Len(shot.log) + 1))
             ELSE /\ shot' = [shot EXCEPT !.log = Append(@, o),
                                          !.active = FALSE, !.phase = "returned"]
                  /\ ShotReturn /\ exc' = exc
    /\ UNCHANGED <<cfg, flowIdx, fl, acts, dob, mail, res, out, txt>>

-----------------------------------------------------------------------------
(* The test functions *)

ResultEntry(status) ==
    [title |-> FlowTitles[flowIdx], status |-> status,
     observed_error |-> IF status = "PASSED" THEN fl.observed ELSE tst.observed_error,
     failure_reason |-> tst.failure_reason, image |-> flowIdx]

\* a mutant of AfterFlow: the batch loop ends at the first failed flow
AfterFlowStopOnFail(status) ==
    IF Batch(cfg.variant)
    THEN /\ tst' = [tst EXCEPT !.results = Append(@, ResultEntry(status)),
                               !.observed_error =
                                   IF status = "PASSED" THEN fl.observed ELSE @,
                               !.captures = <<>>]
         /\ exc' = NoExc
         /\ pc' = IF flowIdx < NumFlows /\ status = "PASSED" THEN "test" ELSE "report"
    ELSE /\ tst' = [tst EXCEPT !.observed_error =
                                   IF status = "PASSED" THEN fl.observed ELSE @,
                               !.captures = <<>>]
         /\ exc' = exc
         /\ pc' = "report"

\* where the test goes after a flow: the batch script appends the flow's
\* result and loops (the name e of its except clause is gone), the others
\* go on to the finally clause, a caught exception still to be re-raised
AfterFlow(status) ==
    IF Batch(cfg.variant)
    THEN /\ tst' = [tst EXCEPT !.results = Append(@, ResultEntry(status)),
                               !.observed_error =
                                   IF status = "PASSED" THEN fl.observed ELSE @,
                               !.captures = <<>>]
         /\ exc' = NoExc
         /\ pc' = IF flowIdx < NumFlows THEN "test" ELSE "report"
    ELSE /\ tst' = [tst EXCEPT !.observed_error =
                                   IF status = "PASSED" THEN fl.observed ELSE @,
                               !.captures = <<>>]
         /\ exc' = exc
         /\ pc' = "report"

\* observed_error = run_claimsimple_flow*(...) returned
FlowReturn ==
    /\ pc = "flow_return"
    /\ AfterFlow("PASSED")
    /\ fl' = FlowLocals /\ acts' = <<>> /\ dob' = NoDob /\ shot' = NoShot
    /\ UNCHANGED <<cfg, flowIdx, files, mail, res, out, txt>>

\* except Exception as e: mark the failure, keep str(e), then the
\* best-effort capture inside try/except Exception: pass
ExceptFlow ==
    /\ pc = "except"
    /\ tst' = [tst EXCEPT !.test_failed = TRUE, !.any_fail = TRUE,
                          !.failure_reason = Str(exc)]
    /\ fl' = FlowLocals /\ acts' = <<>> /\ dob' = NoDob
    /\ shot' = OpenShot(cfg.variant, "failure")
    /\ pc' = "shot"
    /\ UNCHANGED <<cfg, flowIdx, files, exc, mail, res, out, txt>>

\* the except clause is done: "raise" in the single-flow scripts (the
\* finally clause runs first), the append in the batch script
AfterExcept ==
    /\ pc = "after_except"
    /\ AfterFlow("FAILED")
    /\ shot' = NoShot
    /\ UNCHANGED <<cfg, flowIdx, fl, acts, dob, files, mail, res, out, txt>>

\* a mutant of SmtpSteps: on port 587 the login comes before the upgrade
SmtpStepsLoginFirst(ssl) ==
    IF ssl THEN <<"SMTP_SSL:465", "login", "send_message">>
    ELSE <<"SMTP:587", "ehlo", "login", "starttls", "ehlo", "send_message">>

\* send_via_gmail_smtp: the calls made on the connection, in order
SmtpSteps(ssl) ==
    IF ssl THEN <<"SMTP_SSL:465", "login", "send_message">>
    ELSE <<"SMTP:587", "ehlo", "starttls", "ehlo", "login", "send_message">>

\* the calls made when the failAt-th call raises (0: none raises)
SmtpLog(ssl, failAt) ==
    IF failAt = 0 THEN SmtpSteps(ssl) ELSE SubSeq(SmtpSteps(ssl), 1, failAt)

SmtpExc(ssl, failAt) ==
    IF failAt = 0 THEN NoExc ELSE Exc("SMTPException", SmtpSteps(ssl)[failAt], 0)

\* a mutant of ShouldEmail: ALWAYS_EMAIL is ignored
ShouldEmailOnFailureOnly(failed) == failed /\ cfg.onfail

\* should_email = ALWAYS_EMAIL or (failed and EMAIL_ON_FAILURE)
ShouldEmail(failed) == cfg.always \/ (failed /\ cfg.onfail)

\* the lazy scripts validate the SMTP variables right before the send
LazyLookup == IF Eager(cfg.variant) THEN NoExc ELSE LookupRequired(cfg.missing)

\* build_message_with_inline_image opens the image file
BuildSingle(exists) ==
    IF exists THEN NoExc ELSE Exc("FileNotFoundError", "build", 0)

SingleSection(status) ==
    [title |-> "", status |-> status, observed_error |-> tst.observed_error,
     failure_reason |-> tst.failure_reason, attached |-> TRUE]

\* make_msgid(domain="inline"): the k-th id made while a message is built;
\* ids of different calls differ
Cid(k) == k

\* build_message_with_inline_image: set_content (plain text), add_alternative
\* (HTML with one img referring to the cid), add_related (the image file)
MessageSingle(status) ==
    [status |-> status, sections |-> <<SingleSection(status)>>,
     parts |-> <<"text/plain", "text/html">>,
     cids |-> <<Cid(1)>>, images |-> <<Cid(1)>>]

\* a mutant of LeavesFinally: what the finally clause raises is swallowed
LeavesFinallySwallowed(pending, inFinally) == pending

\* the exception that leaves a try/except-raise/finally: the one raised in
\* the finally clause if any, else the pending one
LeavesFinally(pending, inFinally) ==
    IF inFinally # NoExc THEN inFinally ELSE pending

\* single-flow scripts, finally clause: decide, build, send
ReportSingle ==
    /\ pc = "report"
    /\ ~Batch(cfg.variant)
    /\ \E failAt \in 0..Len(SmtpSteps(cfg.ssl)) :
          LET status == IF tst.test_failed THEN "FAILED" ELSE "PASSED"
              enter  == ShouldEmail(tst.test_failed) /\ files[1]
              early  == IF LazyLookup # NoExc THEN LazyLookup
                        ELSE BuildSingle(files[1])
              sends  == enter /\ early = NoExc
              raised == IF ~enter THEN NoExc
                        ELSE IF early # NoExc THEN early
                        ELSE SmtpExc(cfg.ssl, failAt)
          IN  /\ mail' = [entered |-> mail.entered + (IF enter THEN 1 ELSE 0),
                          sends |-> IF sends
                                    THEN Append(mail.sends, MessageSingle(status))
                                    ELSE mail.sends,
                          smtp |-> IF sends THEN SmtpLog(cfg.ssl, failAt) ELSE mail.smtp,
                          printed |-> sends /\ failAt = 0]
              /\ out' = [out EXCEPT !.test = LeavesFinally(exc, raised),
                                    !.ended = TRUE]
    /\ pc' = "teardown"
    /\ UNCHANGED <<cfg, flowIdx, fl, acts, dob, shot, files, exc, tst, res, txt>>

\* a mutant of Section: every section carries the status of the whole run
SectionOverallStatus(r) ==
    [title |-> r.title, status |-> IF tst.any_fail THEN "FAILED" ELSE "PASSED",
     observed_error |-> r.observed_error,
     failure_reason |-> r.failure_reason, attached |-> files[r.image]]

\* the section of a result: its image is attached if the file exists
Section(r) ==
    [title |-> r.title, status |-> r.status, observed_error |-> r.observed_error,
     failure_reason |-> r.failure_reason, attached |-> files[r.image]]

\* "- title: reason" for every failed result, in order
RECURSIVE Details(_)
Details(rs) ==
    IF rs = <<>> THEN <<>>
    ELSE (IF Head(rs).status = "FAILED"
          THEN <<<<Head(rs).title>>>> \o
               (IF Head(rs).failure_reason # NoReason
                THEN Head(rs).failure_reason ELSE <<<<"Unknown error">>>>)
          ELSE <<>>) \o Details(Tail(rs))

\* the positions of the sections whose image file exists
WithImage(rs) ==
    SelectSeq([k \in 1..Len(rs) |-> k], LAMBDA k : files[rs[k].image])

\* build_message_with_multiple_images: set_content (plain text), one HTML
\* alternative with a block per section, each naming a fresh cid, then
\* add_related for every section whose image file exists
MessageMultiple(status, rs) ==
    [status |-> status,
     sections |-> [k \in 1..Len(rs) |-> Section(rs[k])],
     parts |-> <<"text/plain", "text/html">>,
     cids |-> [k \in 1..Len(rs) |-> Cid(k)],
     images |-> [j \in 1..Len(WithImage(rs)) |-> Cid(WithImage(rs)[j])]]

SummaryFailure(rs) ==
    [kind |-> "AssertionError", at |-> "summary", n |-> 0, msg |-> Details(rs)]

\* batch script after the loop: decide, build, send one email, then fail
\* the test if any flow failed
ReportBatch ==
    /\ pc = "report"
    /\ Batch(cfg.variant)
    /\ \E failAt \in 0..Len(SmtpSteps(cfg.ssl)) :
          LET status == IF tst.any_fail THEN "FAILED" ELSE "PASSED"
              enter  == ShouldEmail(tst.any_fail)
              sends  == enter /\ LazyLookup = NoExc
              raised == IF ~enter THEN NoExc
                        ELSE IF LazyLookup # NoExc THEN LazyLookup
                        ELSE SmtpExc(cfg.ssl, failAt)
          IN  /\ mail' = [entered |-> mail.entered + (IF enter THEN 1 ELSE 0),
                          sends |-> IF sends
                                    THEN Append(mail.sends,
                                                MessageMultiple(status, tst.results))
                                    ELSE mail.sends,
                          smtp |-> IF sends THEN SmtpLog(cfg.ssl, failAt) ELSE mail.smtp,
                          printed |-> sends /\ failAt = 0]
              /\ out' = [out EXCEPT
                            !.test = IF raised # NoExc THEN raised
                                     ELSE IF tst.any_fail THEN SummaryFailure(tst.results)
                                     ELSE NoExc,
                            !.ended = TRUE]
    /\ pc' = "teardown"
    /\ UNCHANGED <<cfg, flowIdx, fl, acts, dob, shot, files, exc, tst, res, txt>>

-----------------------------------------------------------------------------
(* The runs *)

FlowStep ==
    \/ Goto
    \/ \E s \in {"claim", "checkbox", "continue", "toggle", "id", "dob"} : WaitAct(s)
    \/ TncPlaywright
    \/ CheckTerms
    \/ DobNative
    \/ DobJs
    \/ ErrorWait
    \/ AssertText
    \/ Stabilise
    \/ ShotTry
    \/ ShotDelay
    \/ ShotFinal
    \/ FlowReturn
    \/ ExceptFlow
    \/ AfterExcept

FixtureStep ==
    \/ ConfigFixture
    \/ Launch
    \/ NewContext
    \/ NewPage
    \/ Teardown

\* the single-flow scripts
Init == InitRun({"fmd", "pw", "sel"})

Next ==
    \/ FixtureStep
    \/ FlowStep
    \/ TncSelenium
    \/ ReportSingle

Spec == Init /\ [][Next]_vars

\* the batch script; the SMTP variables are all set or two of them are
\* missing, delivery is by STARTTLS
BatchMissing == {{}, {"SMTP_PASSWORD", "TO_EMAIL"}}

InitBatch ==
    /\ InitRun({"hk"})
    /\ cfg.missing \in BatchMissing
    /\ ~cfg.ssl

NextBatch ==
    \/ FixtureStep
    \/ FlowStep
    \/ ReportBatch

SpecBatch == InitBatch /\ [][NextBatch]_vars

\* every script, run to its end: the interpreter executes the next statement
\* as soon as the previous call has returned or raised, so a step that is
\* possible is eventually taken; the batch runs have every SMTP variable set
\* and EMAIL_ON_FAILURE on
InitLive ==
    \/ Init
    \/ InitBatch /\ cfg.missing = {} /\ cfg.onfail

NextLive ==
    \/ Next
    \/ ReportBatch

SpecLive == InitLive /\ [][NextLive]_vars /\ WF_vars(NextLive)

\* the four scripts together: the single-flow runs and the batch runs
InitAll ==
    \/ Init
    \/ InitBatch

SpecAll == InitAll /\ [][NextLive]_vars

-----------------------------------------------------------------------------
(* C1 *)

\* x occurs in y: some window of y equals x, position by position
OccursIn(x, y) ==
    \E i \in 1..(Len(y) + 1) :
        \A k \in 1..Len(x) : i + k - 1 <= Len(y) /\ y[i + k - 1] = x[k]

Norm(s) == Casefold(Strip(s))

\* C1: in the lenient scripts, for a non-empty expected text, the check
\* passes exactly when one normalised text occurs in the other, and a failed
\* check is an assertion failure carrying the expected and the actual string.
C1_LenientCheck ==
    (txt.variant \in {"fmd", "hk"} /\ txt.expected # <<>>) =>
        LET pass == OccursIn(Norm(txt.expected), Norm(txt.observed))
                    \/ OccursIn(Norm(txt.observed), Norm(txt.expected))
        IN  /\ (txt.result = NoExc) <=> pass
            /\ ~pass => /\ txt.result.kind = "AssertionError"
                        /\ txt.result.msg = <<txt.expected, txt.observed>>

\* a lenient check that passed only because the observed text, longer than
\* the expected one after folding, is contained in nothing but contains it
C1_Witness ==
    /\ txt.variant = "fmd"
    /\ txt.result = NoExc
    /\ txt.expected = <<"S", "s">>
    /\ txt.observed = <<" ", "sz", "s">>

-----------------------------------------------------------------------------
(* C2, C3: the DOB ladder *)

\* C2: the DOB tiers are tried in the order 1, 2, 3; once the ladder is
\* over, a tier that raised was followed by the next tier (tiers 1 and 2),
\* and no tier follows one that completed without raising.
C2_TierOrder ==
    /\ \A k \in 1..Len(dob.tiers) : dob.tiers[k] = k
    /\ \A k \in 1..Len(dob.tiers) : k \notin dob.raised => k = Len(dob.tiers)
    /\ pc # "dob_js" =>
          \A k \in {1, 2} : k \in dob.raised => Len(dob.tiers) >= k + 1

\* C3: when the JS value-setter succeeded and the re-commit on the DOB
\* element failed, Enter was dispatched at document level.
C3_DocEnterAfterFailedRecommit ==
    (dob.setOk /\ 2 \in dob.commitFailed) =>
        \E k \in 1..Len(acts) : acts[k][2] = "doc_enter"

-----------------------------------------------------------------------------
(* C4, C5: stable_screenshot *)

\* C4: in a stable_screenshot call with 3 retries, a successful capture is
\* the last one made: the captures before it all raised, the call has
\* returned normally to the flow with the file written, and the page was
\* asked for exactly as many captures as the call logged.
C4_RetryThenSuccess ==
    (shot.retries = SuccessRetries) =>
        /\ Len(tst.captures) = Len(shot.log)
        /\ \A k \in 1..Len(shot.log) :
              shot.log[k] = "ok" =>
                 /\ k = Len(shot.log)
                 /\ \A j \in 1..(k - 1) : shot.log[j] = "fail"
                 /\ ~shot.active /\ shot.phase = "returned" /\ shot.left = NoExc
                 /\ pc = "flow_return" /\ exc = NoExc
                 /\ files[flowIdx]

\* two captures raised, the third succeeded, the call returned
C4_Witness ==
    /\ shot.retries = SuccessRetries
    /\ shot.phase = "returned"
    /\ shot.log = <<"fail", "fail", "ok">>
    /\ pc = "flow_return"

\* C5 as stated: a stable_screenshot call that no capture of which
\* succeeded ends after exactly retries + 1 captures, with the exception of
\* the last, unconditional one.
C5_AllFailExactAttempts ==
    (shot.retries > 0 /\ shot.phase = "raised") =>
        /\ Len(shot.log) = shot.retries + 1
        /\ shot.left = Exc("Error", "screenshot", shot.retries + 1)

\* C5, amended: a stable_screenshot call in which every capture raised ends
\* either after retries + 1 captures and retries delays, with the exception
\* of the last, unconditional capture, or at a delay wait that raised, with
\* that wait's exception; the exception of a capture inside the loop never
\* leaves the call.  On the success path the caller receives that exception.
C5_AllCapturesRaise ==
    (shot.retries > 0 /\ shot.phase = "raised") =>
        /\ \A k \in 1..Len(shot.log) : shot.log[k] = "fail"
        /\ \/ /\ shot.left = Exc("Error", "screenshot", shot.retries + 1)
              /\ Len(shot.log) = shot.retries + 1
              /\ shot.i = shot.retries
           \/ /\ shot.left = Exc("Error", "wait_for_timeout", 0)
              /\ Len(shot.log) = shot.i + 1
              /\ Len(shot.log) <= shot.retries
        /\ shot.path = "success" => exc = shot.left /\ pc = "except"

\* all four captures of a call with 3 retries raised
C5_Witness ==
    /\ shot.retries = SuccessRetries
    /\ shot.phase = "raised"
    /\ shot.log = <<"fail", "fail", "fail", "fail">>
    /\ exc = Exc("Error", "screenshot", 4)

-----------------------------------------------------------------------------
(* C6, C7, C8: the report of a single-flow script *)

FlowAssertionRaised == exc.kind = "AssertionError" /\ exc.at = "assert"

\* C6: when the text assertion of the flow raised, the policy selects an
\* email on failure and the SMTP variables are set, the send has been
\* invoked with status FAILED and the failure reason, and the exception
\* that leaves the test is the one raised by the flow.
C6_FailedReportThenReraise ==
    (out.ended /\ FlowAssertionRaised /\ ShouldEmail(TRUE) /\ cfg.missing = {}) =>
        /\ Len(mail.sends) = 1
        /\ mail.sends[1].status = "FAILED"
        /\ mail.sends[1].sections[1].failure_reason = Str(exc)
        /\ out.test = exc

DefaultPolicy == cfg.always /\ cfg.onfail

\* the test is over, the flow returned, and the expected text is contained
\* in the observed error text
FlowPassed ==
    /\ out.ended /\ ~tst.test_failed
    /\ cfg.expected # <<>>
    /\ StrIn(Norm(cfg.expected), Norm(tst.observed_error))

\* C7 as stated: in find_my_doctor, when the flow passed under the default
\* email policy, the screenshot file exists and the send was invoked exactly
\* once, with status PASSED.
C7_PassedReportOnce ==
    (cfg.variant = "fmd" /\ FlowPassed /\ DefaultPolicy) =>
        /\ files[1]
        /\ Len(mail.sends) = 1
        /\ mail.sends[1].status = "PASSED"

\* C7, amended: in the Playwright single-flow scripts, when the flow passed
\* under the default email policy and SMTP_USERNAME, SMTP_PASSWORD and
\* TO_EMAIL are all set, the screenshot file exists and the send was invoked
\* exactly once, with status PASSED.
C7_PassedReportOnceConfigured ==
    (cfg.variant \in {"fmd", "pw"} /\ FlowPassed /\ DefaultPolicy
       /\ cfg.missing = {}) =>
        /\ files[1]
        /\ Len(mail.sends) = 1
        /\ mail.sends[1].status = "PASSED"
        /\ mail.entered = 1

\* find_my_doctor passed with the expected text inside the observed one,
\* and the one email went out
C7_Witness ==
    /\ cfg.variant = "fmd" /\ FlowPassed /\ DefaultPolicy /\ cfg.missing = {}
    /\ Len(mail.sends) = 1
    /\ mail.printed

\* C8: when the flow raised, the exception that leaves the test is the
\* flow's exception, whatever the report step did.
C8_OriginalLeavesTest ==
    (out.ended /\ tst.test_failed) => out.test = exc

-----------------------------------------------------------------------------
(* C9: teardown *)

\* C9: in the Playwright scripts, a run that launched a browser has, at its
\* end, closed the context and closed the browser.
C9_ClosesOnEveryExit ==
    (pc = "end" /\ ~Selenium(cfg.variant) /\ res.browser # "none") =>
        /\ \E k \in 1..Len(res.closes) : res.closes[k] = "context.close"
        /\ \E k \in 1..Len(res.closes) : res.closes[k] = "browser.close"

-----------------------------------------------------------------------------
(* C10: the batch loop *)

InFlow == pc \notin {"config", "launch", "new_context", "new_page", "test",
                     "report", "teardown", "end"}

LoopOver == pc \in {"report", "teardown"} \/ (pc = "end" /\ out.ended)

\* C10: the flows of the batch start in the order of the flows list, each
\* once; while a flow runs, up to the end of its failure-path capture, all
\* earlier flows have their result and no later flow has started; between
\* flows every started flow has its result; after the loop all three flows
\* have started and the result list holds three entries in flow order.
C10_BatchFlowsInOrder ==
    /\ Len(tst.started) = flowIdx
    /\ \A k \in 1..Len(tst.started) : tst.started[k] = FlowTitles[k]
    /\ \A k \in 1..Len(tst.results) : tst.results[k].title = FlowTitles[k]
    /\ InFlow => Len(tst.results) = Len(tst.started) - 1
    /\ ~InFlow => Len(tst.results) = Len(tst.started) /\ ~shot.active
    /\ LoopOver => Len(tst.results) = NumFlows /\ tst.started = FlowTitles

\* the first two flows failed and the third still ran and passed
C10_Witness ==
    /\ LoopOver
    /\ Len(tst.results) = NumFlows
    /\ tst.results[1].status = "FAILED"
    /\ tst.results[2].status = "FAILED"
    /\ tst.results[3].status = "PASSED"

-----------------------------------------------------------------------------
(* C11, C12, C13: the one email of the batch script *)

\* C11: in the batch script at most one email is sent per run; nothing of
\* the report step happens before all three flows have their result; the
\* email has one section per flow, in flow order, carrying the flow's title
\* and the flow's status.
C11_OneEmailAfterAllFlows ==
    /\ Len(mail.sends) <= 1 /\ mail.entered <= 1
    /\ (mail.sends # <<>> \/ mail.smtp # <<>> \/ mail.entered > 0 \/ mail.printed) =>
          /\ out.ended
          /\ Len(tst.results) = NumFlows
    /\ \A i \in 1..Len(mail.sends) :
          /\ Len(mail.sends[i].sections) = NumFlows
          /\ \A k \in 1..NumFlows :
                /\ mail.sends[i].sections[k].title = FlowTitles[k]
                /\ mail.sends[i].sections[k].status = tst.results[k].status

\* the one email of a run whose second flow failed
C11_Witness ==
    /\ Len(mail.sends) = 1
    /\ mail.printed
    /\ mail.sends[1].sections[1].status = "PASSED"
    /\ mail.sends[1].sections[2].status = "FAILED"
    /\ mail.sends[1].sections[3].status = "PASSED"

\* C12: in the batch script, when any flow failed, the test ends with the
\* failure that names every failed flow, whatever the email step did.
C12_BatchFailureNamesFlows ==
    (out.ended /\ tst.any_fail) => out.test = SummaryFailure(tst.results)

\* the number of positions of seq that hold x
Count(seq, x) == Cardinality({j \in 1..Len(seq) : seq[j] = x})

\* C13: a message that was built has one plain-text part, one HTML part and
\* one inline image per section; the content-IDs of its sections differ
\* pairwise and each one is the Content-ID of exactly one attached image.
C13_OneImagePerSection ==
    \A i \in 1..Len(mail.sends) :
        LET m == mail.sends[i]
        IN  /\ Count(m.parts, "text/plain") = 1
            /\ Count(m.parts, "text/html") = 1
            /\ Len(m.cids) = Len(m.sections)
            /\ Len(m.images) = Len(m.sections)
            /\ \A j, k \in 1..Len(m.cids) : j # k => m.cids[j] # m.cids[k]
            /\ \A k \in 1..Len(m.cids) : Count(m.images, m.cids[k]) = 1

-----------------------------------------------------------------------------
(* C14: the fallback navigation to the T&C URL *)

IsNav(a) == a[1] = "do" /\ a[2] = "nav_tnc"

IsCheckboxWait(a) == a[1] = "wait" /\ a[2] = "checkbox"

\* the positions of acts that hold a navigation to the T&C URL
Navs == {k \in 1..Len(acts) : IsNav(acts[k])}

\* the checkbox waits made after position k
WaitsAfter(k) == {j \in (k + 1)..Len(acts) : IsCheckboxWait(acts[j])}

\* a navigation, then the one checkbox wait; a wait that failed ends the flow
NavThenOneWait(k) ==
    /\ Cardinality(Navs) = 1
    /\ ~acts[k][3] => k = Len(acts) /\ pc = "except"
    /\ Cardinality(WaitsAfter(k)) <= 1
    /\ k < Len(acts) => IsCheckboxWait(acts[k + 1])
    /\ \A j \in WaitsAfter(k) :
          ~acts[j][3] => j = Len(acts) /\ pc = "except" /\ exc.kind = "TimeoutError"

\* C14 as stated: in every script the T&C URL is loaded only right after a
\* checkbox wait that failed, at most once per flow, and is followed by one
\* more checkbox wait whose failure ends the flow with no later step.
C14_NavOnlyAfterFailedWait ==
    \A k \in Navs :
        /\ k > 1 /\ acts[k - 1] = <<"wait", "checkbox", FALSE>>
        /\ NavThenOneWait(k)

\* C14, amended: in the Playwright scripts the T&C URL is loaded only right
\* after a checkbox wait that failed; in the Selenium script it is loaded
\* unconditionally, right after the claim button was clicked.  In every
\* script it is loaded at most once per flow and followed by one checkbox
\* wait, whose failure ends the flow with no later step.
C14_NavPerScript ==
    \A k \in Navs :
        /\ k > 1
        /\ acts[k - 1] = IF Selenium(cfg.variant) THEN <<"do", "claim", TRUE>>
                         ELSE <<"wait", "checkbox", FALSE>>
        /\ NavThenOneWait(k)

\* a Playwright flow whose checkbox wait failed before and after the
\* navigation: the flow is over, nothing was done after the second wait
C14_Witness ==
    /\ ~Selenium(cfg.variant)
    /\ pc = "except"
    /\ Len(acts) >= 3
    /\ acts[Len(acts) - 2] = <<"wait", "checkbox", FALSE>>
    /\ acts[Len(acts) - 1] = <<"do", "nav_tnc", TRUE>>
    /\ acts[Len(acts)] = <<"wait", "checkbox", FALSE>>

-----------------------------------------------------------------------------
(* C15: missing SMTP configuration *)

\* e is one configuration error: it names a missing variable and lists all
\* the missing variables, each once
IsConfigError(e) ==
    /\ e.kind = "RuntimeError"
    /\ Len(e.msg) = 2
    /\ Len(e.msg[1]) = 1 /\ e.msg[1][1] \in cfg.missing
    /\ {e.msg[2][j] : j \in 1..Len(e.msg[2])} = cfg.missing
    /\ Len(e.msg[2]) = Cardinality(cfg.missing)

\* C15: with a required SMTP variable missing no email is sent; the eager
\* scripts end in the config fixture, before any browser is launched, with
\* one error listing all the missing variables; the lazy script ends its
\* test with that error as soon as the report step looks the variables up.
C15_MissingConfigListed ==
    (cfg.missing # {}) =>
        /\ mail.sends = <<>> /\ mail.smtp = <<>> /\ ~mail.printed
        /\ (Eager(cfg.variant) /\ pc # "config") =>
              /\ pc = "end" /\ IsConfigError(out.setup)
              /\ res.browser = "none" /\ flowIdx = 0 /\ ~out.ended
        /\ (~Eager(cfg.variant) /\ mail.entered > 0) =>
              /\ out.ended /\ IsConfigError(out.test)

\* find_my_doctor with two variables missing: the flow failed, the report
\* step was entered and its configuration error left the test
C15_Witness ==
    /\ cfg.variant = "fmd"
    /\ cfg.missing = {"SMTP_PASSWORD", "TO_EMAIL"}
    /\ tst.test_failed
    /\ mail.entered = 1
    /\ out.test.kind = "RuntimeError"
    /\ out.test.msg = <<<<"SMTP_PASSWORD">>, <<"SMTP_PASSWORD", "TO_EMAIL">>>>

-----------------------------------------------------------------------------
(* C16: the two delivery modes *)

IsPrefix(p, q) == Len(p) <= Len(q) /\ \A k \in 1..Len(p) : p[k] = q[k]

SmtpCalled(name) == \E k \in 1..Len(mail.smtp) : mail.smtp[k] = name

\* C16: the calls made for a delivery are an initial part of
\* SMTP_SSL on 465, login, send_message       when USE_SSL_465 is set, of
\* SMTP on 587, ehlo, starttls, ehlo, login, send_message   otherwise;
\* so login precedes send_message, on port 587 starttls precedes both, and
\* a starttls that raised is followed by neither; a delivery reported as
\* sent made all the calls of its mode.
C16_DeliveryModes ==
    LET order == IF cfg.ssl
                 THEN <<"SMTP_SSL:465", "login", "send_message">>
                 ELSE <<"SMTP:587", "ehlo", "starttls", "ehlo", "login",
                        "send_message">>
    IN  /\ IsPrefix(mail.smtp, order)
        /\ mail.sends # <<>> => mail.smtp # <<>>
        /\ mail.printed => mail.smtp = order
        /\ \A k \in 1..Len(mail.smtp) :
              mail.smtp[k] = "send_message" =>
                  \E j \in 1..(k - 1) : mail.smtp[j] = "login"
        /\ \A k \in 1..Len(mail.smtp) :
              (~cfg.ssl /\ mail.smtp[k] \in {"login", "send_message"}) =>
                  \E j \in 1..(k - 1) : mail.smtp[j] = "starttls"
        /\ (out.ended /\ out.test.kind = "SMTPException"
              /\ out.test.at = "starttls") =>
                 ~SmtpCalled("login") /\ ~SmtpCalled("send_message")

\* a delivery on port 587 whose starttls raised
C16_Witness ==
    /\ ~cfg.ssl
    /\ out.ended
    /\ out.test = Exc("SMTPException", "starttls", 0)
    /\ mail.smtp = <<"SMTP:587", "ehlo", "starttls">>

-----------------------------------------------------------------------------
(* C17, C18, C19, C20: policy, stability gate, failed capture, delivery *)

\* C17: with the SMTP variables set, a run that is over has sent exactly one
\* email if ALWAYS_EMAIL is set or the run failed and EMAIL_ON_FAILURE is
\* set, and none otherwise.
C17_SendIffPolicy ==
    (out.ended /\ cfg.missing = {}) =>
        Len(mail.sends) =
            IF cfg.always \/ (tst.test_failed /\ cfg.onfail) THEN 1 ELSE 0

\* C18: in a script with the stability gate and an expected text, a
\* success-path capture is made only after the paint check confirmed the
\* error element.
C18_CaptureOnlyAfterPaint ==
    (Stable(cfg.variant) /\ cfg.expected # <<>>
       /\ shot.path = "success" /\ Len(shot.log) > 0) =>
        \E k \in 1..Len(acts) : acts[k] = <<"do", "paint", TRUE>>

\* C19: when the flow failed, the policy selects an email and the
\* failure-path capture wrote no file, the send step is still reached.
C19_ReportWithoutScreenshot ==
    (out.ended /\ tst.test_failed /\ ShouldEmail(TRUE) /\ ~files[1]) =>
        mail.entered = 1

\* C20: a delivery in which a call raised ends the test with that call's
\* exception, whether the flow had passed or failed; the success message is
\* printed only when send_message was called and nothing of the delivery
\* raised.
C20_DeliveryFailurePropagates ==
    /\ (out.ended /\ mail.smtp # <<>> /\ ~mail.printed) =>
          /\ out.test.kind = "SMTPException"
          /\ out.test.at = mail.smtp[Len(mail.smtp)]
    /\ mail.printed =>
          /\ mail.smtp # <<>>
          /\ mail.smtp[Len(mail.smtp)] = "send_message"
          /\ out.test.kind # "SMTPException"

\* the flow passed and the login of the delivery raised
C20_Witness ==
    /\ out.ended
    /\ ~tst.test_failed
    /\ mail.smtp # <<>> /\ mail.smtp[Len(mail.smtp)] = "login"
    /\ out.test = Exc("SMTPException", "login", 0)

-----------------------------------------------------------------------------
(* C21: the order of the interactions of a flow *)

\* the interactions of a flow, in the order claimed
Ranked == <<"goto", "claim", "checkbox", "continue", "toggle", "id", "dob">>

RankedSet == {Ranked[i] : i \in 1..Len(Ranked)}

Rank(e) == CHOOSE i \in 1..Len(Ranked) : Ranked[i] = e

IsStep(a) == a[1] = "do" /\ a[2] \in RankedSet

IsFailedWait(a) == a[1] = "wait" /\ a[2] \in RankedSet /\ ~a[3]

\* the interactions made so far are in the fixed order, none left out, each
\* right after a successful wait for its own element; the error text was
\* read only from the error element, after the DOB was entered
StepsInOrder ==
    /\ \A k \in 1..Len(acts) :
          IsStep(acts[k]) =>
             /\ Rank(acts[k][2]) = 1 => k = 1
             /\ Rank(acts[k][2]) > 1 =>
                   /\ acts[k - 1] = <<"wait", acts[k][2], TRUE>>
                   /\ \E j \in 1..(k - 1) :
                         acts[j] = <<"do", Ranked[Rank(acts[k][2]) - 1], TRUE>>
             /\ \A j \in 1..(k - 1) :
                   IsStep(acts[j]) => Rank(acts[j][2]) < Rank(acts[k][2])
    /\ \A k \in 1..Len(acts) :
          acts[k][2] = "error" =>
             \E j \in 1..(k - 1) : acts[j][1] = "do" /\ acts[j][2] = "dob"
    /\ fl.observed # <<>> =>
          \E k \in 1..Len(acts) : acts[k] = <<"wait", "error", TRUE>>

\* C21 as stated: the interactions are in order, and a wait up to the DOB
\* field that failed is the last thing the flow did: the flow has raised.
C21_FailedWaitEndsFlow ==
    /\ StepsInOrder
    /\ \A k \in 1..Len(acts) :
          IsFailedWait(acts[k]) => k = Len(acts) /\ pc = "except"

\* the failed wait at position k is the first wait for the terms checkbox of
\* a Playwright script: the navigation to the T&C URL follows; a navigation
\* that raised is the last thing the flow did, a navigation that succeeded
\* is followed by exactly one more wait for the checkbox
FallbackAfter(k) ==
    /\ ~Selenium(cfg.variant) /\ acts[k][2] = "checkbox"
    /\ \A j \in 1..(k - 1) : ~IsNav(acts[j])
    /\ k < Len(acts) /\ IsNav(acts[k + 1])
    /\ Cardinality(Navs) = 1
    /\ IF acts[k + 1][3]
       THEN /\ k + 2 <= Len(acts) /\ IsCheckboxWait(acts[k + 2])
            /\ Cardinality(WaitsAfter(k + 1)) = 1
       ELSE /\ k + 1 = Len(acts)
            /\ pc = "except" /\ exc.at = "nav_tnc"

\* C21, amended: the interactions are in order, and a wait up to the DOB
\* field that failed is the last thing the flow did, the flow having
\* raised, except the first wait for the terms checkbox in the Playwright
\* scripts: it is followed by the navigation to the T&C URL, which ends the
\* flow if it raises and is otherwise followed by one more wait for the
\* checkbox, whose failure ends the flow.
C21_OrderedInteractions ==
    /\ StepsInOrder
    /\ \A k \in 1..Len(acts) :
          IsFailedWait(acts[k]) =>
             \/ k = Len(acts) /\ pc = "except" /\ exc.kind = "TimeoutError"
             \/ FallbackAfter(k)
    /\ \A k \in 1..Len(acts) :
          (IsNav(acts[k]) /\ ~acts[k][3]) =>
             k = Len(acts) /\ pc = "except" /\ exc.at = "nav_tnc"

\* the wait for the ID field failed after the toggle was clicked: the flow
\* raised with the toggle as its last interaction
C21_Witness ==
    /\ pc = "except"
    /\ Len(acts) >= 2
    /\ acts[Len(acts)] = <<"wait", "id", FALSE>>
    /\ acts[Len(acts) - 1] = <<"do", "toggle", TRUE>>

-----------------------------------------------------------------------------
(* C22: native typing that failed *)

NativeTypingCalls == {"click", "fill", "type"}

\* C22: no exception of the native typing into the DOB field ever leaves
\* the flow; when tier 1 raised and the JS value-setter succeeded, the flow
\* is at the verification step or past it, and if it raised, a later step
\* raised.
C22_NativeFailureNotSurfaced ==
    /\ exc.at \notin NativeTypingCalls
    /\ out.test.at \notin NativeTypingCalls
    /\ (1 \in dob.raised /\ dob.setOk) =>
          /\ \E k \in 1..Len(acts) : acts[k] = <<"do", "dob", FALSE>>
          /\ pc \in {"error_wait", "assert", "stabilise", "shot", "flow_return",
                     "except"}
          /\ pc = "except" =>
                exc.at \in {"error_wait", "assert", "screenshot", "wait_for_timeout"}

\* tier 1 raised, the setter succeeded, and the flow went on to pass
C22_Witness ==
    /\ 1 \in dob.raised
    /\ dob.setOk
    /\ pc = "flow_return"
    /\ exc = NoExc

-----------------------------------------------------------------------------
(* C23: the exact check against the lenient check *)

\* C23: for a non-empty expected text, a pair of texts that passes the
\* exact-equality check of send_test_email_with_screenshot* passes the
\* lenient check of find_my_doctor and hk_eclaims as well.
C23_ExactImpliesLenient ==
    (txt.variant \in {"pw", "sel"} /\ txt.expected # <<>> /\ txt.result = NoExc) =>
        /\ TextCheck("fmd", txt.expected, txt.observed) = NoExc
        /\ TextCheck("hk", txt.expected, txt.observed) = NoExc
        /\ OccursIn(Norm(txt.expected), Norm(txt.observed))

\* an exact check that passed on a text whose folding changes its length
C23_Witness ==
    /\ txt.variant = "pw"
    /\ txt.result = NoExc
    /\ txt.expected = <<"S", "sz">>
    /\ txt.observed = <<"S", "sz">>

-----------------------------------------------------------------------------
(* C24: captures and the text assertion *)

\* the caller has caught the failure of the flow's text assertion
AssertFailureCaught ==
    /\ tst.test_failed
    /\ tst.failure_reason # NoReason
    /\ tst.failure_reason[1] = <<"Expected">>

\* C24: with an expected text, a success-path capture is made only after
\* the text assertion passed.  Once the caller has caught a failed
\* assertion, no success-path capture was made, one failure-path screenshot
\* call is made, of at most 3 captures where stable_screenshot is used and
\* of one elsewhere, and the exception kept for the re-raise stays the
\* assertion failure whatever the captures do.
C24_CaptureAfterAssertion ==
    /\ (cfg.expected # <<>> /\ shot.path = "success" /\ shot.log # <<>>) =>
          \E k \in 1..Len(acts) : acts[k] = <<"do", "assert", TRUE>>
    /\ AssertFailureCaught =>
          /\ exc.kind = "AssertionError" /\ exc.at = "assert"
          /\ shot.path # "success"
          /\ \A k \in 1..Len(tst.captures) : tst.captures[k][1] = "failure"
          /\ Len(tst.captures) <=
                (IF Stable(cfg.variant) THEN FailureRetries + 1 ELSE 1)
          /\ pc = "after_except" =>
                /\ ~shot.active
                /\ Len(shot.log) = Len(tst.captures)
                /\ Len(tst.captures) >= 1

\* the assertion failed and all three failure-path captures raised: the
\* assertion failure is still the exception to re-raise
C24_Witness ==
    /\ pc = "after_except"
    /\ exc.at = "assert"
    /\ shot.phase = "raised"
    /\ tst.captures = <<<<"failure", FALSE>>, <<"failure", FALSE>>,
                        <<"failure", FALSE>>>>


-----------------------------------------------------------------------------
(* C25 *)

\* the run is over: the fixtures are torn down (or setup raised)
Terminated == pc = "end"

\* the fixed bounds of the loops: at most one fallback navigation per flow,
\* at most three DOB tiers, at most retries + 1 capture attempts per
\* stable_screenshot call, one flow in a single-flow run and three in the
\* batch, at most one email
LoopBounds ==
    /\ Cardinality(Navs) <= 1
    /\ Len(dob.tiers) <= 3
    /\ shot.i <= shot.retries
    /\ Len(shot.log) <= shot.retries + 1
    /\ shot.retries <= SuccessRetries
    /\ flowIdx <= (IF Batch(cfg.variant) THEN NumFlows ELSE 1)
    /\ Len(mail.sends) <= 1
    /\ mail.entered <= 1

\* what a finished test function leaves: a single-flow run passed or raised
\* its failure; the batch ran the three flows, then sent at most one email
RunOutcome ==
    (Terminated /\ tst.started # <<>>) =>
        /\ out.ended
        /\ IF Batch(cfg.variant)
           THEN /\ Len(tst.started) = NumFlows
                /\ Len(tst.results) = NumFlows
                /\ Len(mail.sends) <= 1
           ELSE /\ Len(tst.started) = 1
                /\ tst.test_failed => out.test # NoExc

\* C25: when every browser wait and every SMTP call returns or raises, every
\* run terminates; a finished single-flow run has passed or raised its
\* failure, a finished batch run has made exactly three flow runs and sent at
\* most one email, and no loop (fallback navigation, DOB ladder, screenshot
\* retry, flow loop) repeats more than its fixed bound.
C25_RunsTerminate ==
    /\ [](LoopBounds /\ RunOutcome)
    /\ <>Terminated

\* a batch run that ended after three flows, the first passed and the last
\* failed, and one email
C25_Witness ==
    /\ Terminated
    /\ Batch(cfg.variant)
    /\ Len(tst.results) = NumFlows
    /\ tst.results[1].status = "PASSED"
    /\ tst.results[NumFlows].status = "FAILED"
    /\ Len(mail.sends) = 1


-----------------------------------------------------------------------------
(* C26 *)

\* the flow is returning to its caller, which records it as PASSED
FlowReturnsPassed == pc = "flow_return"

\* the wait for the error element succeeded in this flow
ErrorElementSeen == \E k \in 1..Len(acts) : acts[k] = <<"wait", "error", TRUE>>

\* C26: a flow with a non-empty expected text is PASSED only if the error
\* element became visible and its non-empty text was observed; after a
\* timed-out wait for the error element such a flow ends FAILED, in the
\* lenient scripts as in the exact ones.
C26_PassedOnlyOnObservedText ==
    (FlowReturnsPassed /\ cfg.expected # <<>>) =>
        /\ ErrorElementSeen
        /\ fl.observed # <<>>


-----------------------------------------------------------------------------
(* C27 *)

\* this step is a capture on the success path that wrote the file
SuccessCaptureStep ==
    /\ pc = "shot" /\ shot.path = "success"
    /\ Len(tst'.captures) = Len(tst.captures) + 1
    /\ tst'.captures[Len(tst'.captures)] = <<"success", TRUE>>

\* with no expected text: from the end of the error wait the flow goes
\* straight to the success-path capture, with no assertion and no gate; a
\* capture that succeeds ends the flow; the returning flow is recorded as
\* passed, with the text it observed
NoExpectedTextStep ==
    /\ pc = "assert" =>
          /\ pc' = "shot"
          /\ shot'.active /\ shot'.path = "success" /\ shot'.log = <<>>
          /\ acts' = acts /\ exc' = exc
    /\ pc' # "stabilise"
    /\ \A k \in 1..Len(acts') : acts'[k][2] \notin {"assert", "paint"}
    /\ SuccessCaptureStep => pc' = "flow_return"
    /\ pc = "flow_return" =>
          /\ ~tst'.test_failed
          /\ tst'.observed_error = fl.observed
          /\ tst'.failure_reason = NoReason

\* C27: when the expected error text is empty the flow makes no text
\* assertion and runs no paint/stability gate, still captures the
\* screenshot, and ends PASSED for every observed text, also when no error
\* element appeared, provided the capture succeeds.
C27_EmptyExpectedPasses == [][cfg.expected = <<>> => NoExpectedTextStep]_vars

\* no expected text, no error element appeared, the capture succeeded and the
\* flow returns
C27_Witness ==
    /\ cfg.expected = <<>>
    /\ pc = "flow_return"
    /\ acts[Len(acts)] = <<"wait", "error", FALSE>>
    /\ fl.observed = <<>>
    /\ tst.captures = <<<<"success", TRUE>>>>


-----------------------------------------------------------------------------
(* C28 *)

\* one flow result as the email builder gets it
WellFormedResult(r) ==
    /\ r.status \in {"PASSED", "FAILED"}
    /\ (r.failure_reason # NoReason) <=> (r.status = "FAILED")
    /\ r.status = "FAILED" => r.observed_error = <<>>

AnySectionFailed(m) ==
    \E k \in 1..Len(m.sections) : m.sections[k].status = "FAILED"

\* C28: in every flow result handed to the email builder the status is
\* PASSED or FAILED, the failure reason is present exactly when the status is
\* FAILED, and a FAILED result has an empty observed-error text; the subject
\* status of the batch email is FAILED exactly when a section is FAILED.
C28_ResultsWellFormed ==
    /\ \A k \in 1..Len(tst.results) : WellFormedResult(tst.results[k])
    /\ \A i \in 1..Len(mail.sends) :
          LET m == mail.sends[i]
          IN  /\ m.status \in {"PASSED", "FAILED"}
              /\ \A k \in 1..Len(m.sections) : WellFormedResult(m.sections[k])
              /\ (m.status = "FAILED") <=> AnySectionFailed(m)
              /\ Batch(cfg.variant) => Len(m.sections) = NumFlows

\* a batch email whose first section passed with the text it observed and
\* whose second section failed on the text assertion
C28_Witness ==
    /\ Batch(cfg.variant)
    /\ Len(mail.sends) = 1
    /\ mail.sends[1].status = "FAILED"
    /\ mail.sends[1].sections[1].status = "PASSED"
    /\ mail.sends[1].sections[1].observed_error # <<>>
    /\ mail.sends[1].sections[2].status = "FAILED"
    /\ mail.sends[1].sections[2].failure_reason[1] = <<"Expected">>


-----------------------------------------------------------------------------
(* C29 *)

\* the success-path capture raised out of the flow: every attempt failed
ScreenshotFailedFlow == exc # NoExc /\ exc.at = "screenshot"

\* the attempts of the success-path call, all failed
FailedSuccessAttempts ==
    [k \in 1..(RetriesOf(cfg.variant, "success") + 1) |-> <<"success", FALSE>>]

\* C29: when the text assertion passed but every attempt of the success-path
\* capture raises, the flow ends FAILED with the screenshot error as its
\* failure reason, a failure-path capture is then attempted, and the run is
\* reported as failed; a Playwright flow returns only after a capture that
\* succeeded.
C29_ScreenshotFailureFailsRun ==
    /\ (pc = "flow_return" /\ ~Selenium(cfg.variant)) =>
          /\ tst.captures # <<>>
          /\ tst.captures[Len(tst.captures)] = <<"success", TRUE>>
    /\ ScreenshotFailedFlow =>
          /\ exc.n = RetriesOf(cfg.variant, "success") + 1
          /\ pc # "except" =>
                /\ tst.test_failed
                /\ tst.failure_reason = Str(exc)
          /\ pc = "after_except" =>
                /\ IsPrefix(FailedSuccessAttempts, tst.captures)
                /\ Len(tst.captures) > Len(FailedSuccessAttempts)
                /\ \A k \in (Len(FailedSuccessAttempts) + 1)..Len(tst.captures) :
                      tst.captures[k][1] = "failure"
          /\ out.ended =>
                /\ out.test # NoExc
                /\ \A i \in 1..Len(mail.sends) : mail.sends[i].status = "FAILED"

\* find_my_doctor: the four success-path attempts failed, the failure-path
\* capture wrote the file, the FAILED email went out and the test raised the
\* screenshot error
C29_Witness ==
    /\ cfg.variant = "fmd" /\ cfg.expected # <<>>
    /\ ScreenshotFailedFlow
    /\ out.ended /\ out.test = exc
    /\ files[1]
    /\ Len(mail.sends) = 1
    /\ mail.sends[1].status = "FAILED"
    /\ mail.sends[1].sections[1].failure_reason = Str(exc)


-----------------------------------------------------------------------------
(* C30 *)

\* what the email policy is asked about: the flow of a single-flow script
\* failed, or some flow of the batch failed
RunFailed == IF Batch(cfg.variant) THEN tst.any_fail ELSE tst.test_failed

\* the run of an eager script with a variable missing: over in the config
\* fixture, nothing launched, no page action
EagerAbort ==
    /\ res.browser = "none" /\ res.closes = <<>>
    /\ flowIdx = 0 /\ acts = <<>> /\ tst.started = <<>>
    /\ pc # "config" => pc = "end" /\ IsConfigError(out.setup) /\ ~out.ended

\* the run of a lazy script with a variable missing: the error is neither a
\* setup error nor a flow failure; it leaves the test only from an email step
\* that the policy selected, in the batch script after all three flows ran
LazyRaise ==
    /\ out.setup.kind # "RuntimeError"
    /\ exc.kind # "RuntimeError"
    /\ \A k \in 1..Len(tst.results) :
          tst.results[k].failure_reason # NoReason =>
             tst.results[k].failure_reason[1] # <<"RuntimeError">>
    /\ out.test.kind = "RuntimeError" =>
          /\ out.ended /\ IsConfigError(out.test)
          /\ mail.entered = 1
          /\ ShouldEmail(RunFailed)
          /\ Len(tst.started) = (IF Batch(cfg.variant) THEN NumFlows ELSE 1)
          /\ Batch(cfg.variant) => Len(tst.results) = NumFlows
    /\ (out.ended /\ ~ShouldEmail(RunFailed)) =>
          /\ mail.entered = 0
          /\ out.test.kind # "RuntimeError"
    /\ (out.ended /\ Batch(cfg.variant) /\ ShouldEmail(RunFailed)) =>
          IsConfigError(out.test)

\* in a lazy script the config fixture always goes on to the launch, and the
\* configuration error appears in the report step only
LazyStep ==
    ~Eager(cfg.variant) =>
        /\ pc = "config" => pc' = "launch"
        /\ (out'.test.kind = "RuntimeError" /\ out.test.kind # "RuntimeError") =>
              pc = "report"

\* C30: in the eager scripts (sel, pw) a missing SMTP_USERNAME, SMTP_PASSWORD
\* or TO_EMAIL ends the run before any browser is launched and before any
\* page action; in the lazy scripts (fmd, hk) the missing value never keeps
\* the flows from running, is raised only when the email is about to be
\* sent, and not at all when the email policy selects no send.
C30_EagerVersusLazy ==
    /\ [](cfg.missing # {} =>
            IF Eager(cfg.variant) THEN EagerAbort ELSE LazyRaise)
    /\ [][cfg.missing # {} => LazyStep]_vars

\* hk_eclaims with two variables missing: the three flows ran, the first
\* passed and the last failed, the policy selected the email and the lookup
\* inside the email step raised the configuration error
C30_Witness ==
    /\ cfg.variant = "hk"
    /\ cfg.missing = {"SMTP_PASSWORD", "TO_EMAIL"}
    /\ Len(tst.results) = NumFlows
    /\ tst.results[1].status = "PASSED"
    /\ tst.results[NumFlows].status = "FAILED"
    /\ mail.entered = 1 /\ mail.sends = <<>>
    /\ out.ended
    /\ out.test.kind = "RuntimeError"
    /\ out.test.msg = <<<<"SMTP_PASSWORD">>, <<"SMTP_PASSWORD", "TO_EMAIL">>>>

=============================================================================
